---- MODULE Spec2Model ----
(***************************************************************************)
(* A model of flatland_server's World (world.cpp): construction from a     *)
(* YAML description (MakeWorld, LoadLayers, LoadModels, LoadModel), the     *)
(* step loop (Update), the forwarding of Box2D contact callbacks and the    *)
(* destructor.  The program is single threaded; pc is the position of the   *)
(* one thread of control, and every action is one statement (or one loop    *)
(* iteration) of world.cpp.  log records, in order, every call World makes  *)
(* on a collaborator and every callback the engine makes on World.          *)
(***************************************************************************)
EXTENDS Integers, Sequences, FiniteSets, TLC

\* ------------------------------------------------------------------ bounds
\* capacity of the collision filter registry (cfr_.MAX_LAYERS); its value is
\* set outside world.cpp and the model is parametric in it
MAX_LAYERS == 2
\* most entries of the `models` sequence of a description
MaxModels == 2
\* most entries of a model's `plugins` sequence
MaxPlugins == 2
\* most Update calls the caller makes on a World
MaxUpdates == 1
\* most contact callbacks the engine delivers during the life of a World
MaxContacts == 3
\* the timekeeper's fixed step size (timekeeper.GetStepSize())
StepSize == 1

VARIABLES
  pc,        \* position of the thread of control
  props,     \* yaml["properties"] as MakeWorld read it
  yLayers,   \* yaml["layers"]: its kind and, of a sequence, its size
  yModels,   \* yaml["models"]: its kind, its size and the entries read so far
  files,     \* the `plugins` node of each model file read so far
  world,     \* the World object w: "none", "alive", "freed"
  engine,    \* physics_world_: "none", "alive", "destroyed"
  listener,  \* the engine's contact listener: "nullptr" or "world"
  bodies,    \* the bodies the engine owns
  cfrCount,  \* layers registered in cfr_
  layers_,   \* World::layers_
  models_,   \* World::models_
  live,      \* the Layer and Model objects on the heap
  i,         \* index of the layer or model loop under way
  k,         \* index of the plugin loop under way
  args,      \* arguments of the LoadModel call under way
  exc,       \* the exception in flight, or NoExc
  dtorFrom,  \* who invoked ~World: "caller", "catch_yaml", "catch_plugin"
  result,    \* what MakeWorld gave its caller: nothing yet, w or an exception
  simTime,   \* the timekeeper's clock
  updates,   \* Update calls begun
  contacts,  \* contact callbacks delivered
  plugins,   \* the plugins PluginManager has loaded
  log        \* calls and callbacks so far

vars == <<pc, props, yLayers, yModels, files, world, engine, listener,
          bodies, cfrCount, layers_, models_, live, i, k, args, exc, dtorFrom,
          result, simTime, updates, contacts, plugins, log>>

\* ------------------------------------------------------------- exceptions
NoExc == [type |-> "none", msg |-> <<>>]

\* flatland_server::YAMLException(msg)
YAMLException(msg) == [type |-> "YAMLException", msg |-> msg]

\* an exception of yaml-cpp itself (a failed as<T>() conversion)
YAMLcppException(msg) == [type |-> "YAML::Exception", msg |-> msg]

PluginException(msg) == [type |-> "PluginException", msg |-> msg]

\* whether `catch (const YAML::Exception &)` takes an exception of this
\* type: yaml-cpp's own, and flatland's YAMLException, the description
\* error whose handler this is
IsYAMLError(t) == t \in {"YAML::Exception", "YAMLException"}

Ev(op, arg) == [op |-> op, arg |-> arg]

Emit(evs) == log' = log \o evs

\* ------------------------------------------------------------ YAML nodes
\* A node is [kind, val]: kind is "absent", "scalar", "seq" or "map"; val is
\* the text of a scalar (a sequence of tokens) or the items of a sequence.
Absent == [kind |-> "absent", val |-> <<>>]
Scalar(text) == [kind |-> "scalar", val |-> text]
SeqNode(items) == [kind |-> "seq", val |-> items]
MapNode == [kind |-> "map", val |-> <<>>]

\* `if (node)`: the node is defined
Defined(n) == n.kind # "absent"
IsSequence(n) == n.kind = "seq"
IsMap(n) == n.kind = "map"
\* as<std::string>() converts scalars only; anything else throws
CanAsString(n) == n.kind = "scalar"
\* as<double>() converts scalars whose text is a number
Numerals == {<<"0">>, <<"1">>, <<"2">>}
CanAsDouble(n) == n.kind = "scalar" /\ n.val \in Numerals
AsDouble(n) ==
  CASE n.val = <<"0">> -> 0 [] n.val = <<"1">> -> 1 [] n.val = <<"2">> -> 2

\* ------------------------------------------------------------------ paths
\* A path is the sequence of its tokens, "/" being a token of its own.
yaml_path == <<"/", "a", "/", "b", "/", "world.yaml">>

LastSlash(p) ==
  LET S == {n \in 1..Len(p) : p[n] = "/"} IN
  IF S = {} THEN 0 ELSE CHOOSE n \in S : \A m \in S : m <= n

\* boost::filesystem::path::parent_path()
ParentPath(p) ==
  LET n == LastSlash(p) IN
  IF n = 0 THEN <<>> ELSE IF n = 1 THEN <<"/">> ELSE SubSeq(p, 1, n - 1)

\* boost::filesystem operator/: appending an empty path changes nothing
JoinPath(p, q) ==
  IF q = <<>> THEN p
  ELSE IF p = <<>> THEN q
  ELSE IF p[Len(p)] = "/" THEN p \o q
  ELSE p \o <<"/">> \o q

\* ------------------------------------------------ the description's inputs
Entry(name, ns, pose, model) ==
  [name |-> name, ns |-> ns, pose |-> pose, model |-> model]

Pose(x, y, t) == SeqNode(<<Scalar(<<x>>), Scalar(<<y>>), Scalar(<<t>>)>>)

EntryA == Entry(Scalar(<<"m1">>), Absent, Pose("1", "2", "0"),
                Scalar(<<"foo.yaml">>))
EntryB == Entry(Scalar(<<"m2">>), Scalar(<<"ns">>), Pose("2", "1", "1"),
                Scalar(<<"/", "x", "/", "foo.yaml">>))
\* model: "" is a string too
EntryC == Entry(Scalar(<<"m3">>), Absent, Pose("0", "1", "2"), Scalar(<<>>))

\* the entries that fail a check of LoadModels: one for each check, and
\* entries that fail more than one
InvalidEntries ==
  { [EntryA EXCEPT !.name = Absent, !.pose = Absent, !.model = Absent],
    [EntryB EXCEPT !.pose = Scalar(<<"1">>), !.model = Absent],
    [EntryA EXCEPT !.name = Absent],
    [EntryA EXCEPT !.name = MapNode],
    [EntryB EXCEPT !.ns = MapNode],
    [EntryA EXCEPT !.pose = Absent],
    [EntryB EXCEPT !.pose = Scalar(<<"1">>)],
    [EntryA EXCEPT !.pose = SeqNode(<<Scalar(<<"1">>), Scalar(<<"2">>)>>)],
    [EntryB EXCEPT !.pose = SeqNode(<<Scalar(<<"1">>), Scalar(<<"x">>),
                                      Scalar(<<"0">>)>>)],
    [EntryA EXCEPT !.model = Absent],
    [EntryB EXCEPT !.model = MapNode] }

\* the descriptions read: the `models` sequence is a prefix of
\* <<EntryA, EntryB, EntryB, ...>> or of <<EntryC, EntryB, EntryB, ...>>,
\* or such a prefix followed by an invalid entry
EntriesAt(n) ==
  InvalidEntries \cup (IF n = 0 THEN {EntryA, EntryC} ELSE {EntryB})

ModelEntries == InvalidEntries \cup {EntryA, EntryB, EntryC}

\* a section of the description: kind as for a node, size of a sequence
Section(kind, size) == [kind |-> kind, size |-> size]
Unread == Section("unread", 0)
Sections(max) ==
  {Section("absent", 0), Section("map", 0)}
    \cup {Section("seq", n) : n \in 0..max}

\* what yaml["properties"] can be
PropertiesNodes == {Absent, Scalar(<<"x">>), MapNode}
\* whether YAML::LoadFile can read the file
FileStates == {"ok", "unreadable"}
\* what the Layer, Model and plugin builders can do with their input
Builds == {"ok", "YAMLException", "YAML::Exception"}
PluginLoads == {"ok", "PluginException", "YAMLException"}
ContactKinds == {"BeginContact", "EndContact", "PreSolve", "PostSolve"}

\* ---------------------------------------------- LoadModels, lines 203-233
\* if (model_path.string().front() != '/') model_path = parent / model_path;
\* front() of an empty string is undefined: either branch may be taken
ResolvePath(model_path) ==
  LET joined == JoinPath(ParentPath(yaml_path), model_path) IN
  IF model_path = <<>> THEN {model_path, joined}
  ELSE IF model_path[1] # "/" THEN {joined}
  ELSE {model_path}

Thrown(e) == [exc |-> e, args |-> <<>>]

\* the checks of one entry of `models`, in the order of the code: the
\* exception thrown, or the arguments LoadModel is called with
ValidateEntry(node, idx) ==
  LET name == node.name.val
      ns == IF Defined(node.ns) THEN node.ns.val ELSE <<>>
      pose == node.pose.val
  IN
  IF ~Defined(node.name)
  THEN {Thrown(YAMLException(<<"Missing model name in model index=",
                               ToString(idx)>>))}
  ELSE IF ~CanAsString(node.name)
  THEN {Thrown(YAMLcppException(<<"bad conversion">>))}
  ELSE IF Defined(node.ns) /\ ~CanAsString(node.ns)
  THEN {Thrown(YAMLcppException(<<"bad conversion">>))}
  ELSE IF ~(Defined(node.pose) /\ IsSequence(node.pose) /\ Len(pose) = 3)
  THEN {Thrown(YAMLException(<<"Missing/invalid \"pose\" in ">> \o name
                              \o <<" model">>))}
  ELSE IF \E n \in 1..3 : ~CanAsDouble(pose[n])
  THEN {Thrown(YAMLcppException(<<"bad conversion">>))}
  ELSE IF ~Defined(node.model)
  THEN {Thrown(YAMLException(<<"Missing \"model\" in ">> \o name
                              \o <<" model">>))}
  ELSE IF ~CanAsString(node.model)
  THEN {Thrown(YAMLcppException(<<"bad conversion">>))}
  ELSE {[exc |-> NoExc,
         args |-> [path |-> path, ns |-> ns, name |-> name,
                   pose |-> <<AsDouble(pose[1]), AsDouble(pose[2]),
                              AsDouble(pose[3])>>]]
          : path \in ResolvePath(node.model.val)}

\* ------------------------------------------------------------------ state
\* the model files the entries can name
ModelPaths ==
  UNION {ResolvePath(node.model.val) :
           node \in {e \in ModelEntries : CanAsString(e.model)}}

NoResult == [kind |-> "none", exc |-> NoExc]
Returned == [kind |-> "world", exc |-> NoExc]
Raised(e) == [kind |-> "error", exc |-> e]

Init ==
  /\ pc = "MakeWorld"
  /\ props = [kind |-> "unread", val |-> <<>>]
  /\ yLayers = Unread
  /\ yModels = [kind |-> "unread", size |-> 0, items |-> <<>>]
  /\ files = [path \in ModelPaths |-> Unread]
  /\ world = "none"
  /\ engine = "none"
  /\ listener = "nullptr"
  /\ bodies = {}
  /\ cfrCount = 0
  /\ layers_ = <<>>
  /\ models_ = <<>>
  /\ live = {}
  /\ i = 0
  /\ k = 0
  /\ args = <<>>
  /\ exc = NoExc
  /\ dtorFrom = "none"
  /\ result = NoResult
  /\ simTime = 0
  /\ updates = 0
  /\ contacts = 0
  /\ plugins = <<>>
  /\ log = <<>>

\* a throw inside the try block of MakeWorld, lines 135-137
Throw(e) == exc' = e /\ pc' = "catch"

\* the objects: a layer and its body, a model and its body
LayerObj(n) == <<"Layer", n>>
ModelObj(n) == <<"Model", n>>
BodyOf(obj) == <<"Body", obj>>

\* -------------------------------------------- World::MakeWorld, 117-133
\* line 127 with the type check left out
PropertiesValid_AnyType(p) == Defined(p)

\* line 127: yaml["properties"] && yaml["properties"].IsMap()
PropertiesValid(p) == Defined(p) /\ IsMap(p)

\* parse the file and require `properties` to be a map; both failures are
\* thrown before the World is constructed
MakeWorld ==
  /\ pc = "MakeWorld"
  /\ \E file \in FileStates, p \in PropertiesNodes :
       IF file = "unreadable"
       THEN /\ result' = Raised(YAMLException(<<"Error loading ">>
                                                \o yaml_path))
            /\ pc' = "failed"
            /\ UNCHANGED props
       ELSE /\ props' = p
            /\ IF PropertiesValid(p)
               THEN pc' = "World" /\ UNCHANGED result
               ELSE /\ result' = Raised(YAMLException(
                         <<"Missing/invalid world param \"properties\"">>))
                    /\ pc' = "failed"
  /\ UNCHANGED <<yLayers, yModels, files, world, engine, listener, bodies,
                 cfrCount, layers_, models_, live, i, k, args, exc, dtorFrom,
                 simTime, updates, contacts, plugins, log>>

\* ------------------------------------------------- World::World, 59-62
\* the constructor without line 61
WorldCtor_NoListener ==
  /\ pc = "World"
  /\ world' = "alive"
  /\ engine' = "alive"
  /\ Emit(<<Ev("new b2World", <<0, 0>>)>>)
  /\ pc' = "LoadLayers"
  /\ UNCHANGED <<props, yLayers, yModels, files, listener, bodies, cfrCount,
                 layers_, models_, live, i, k, args, exc, dtorFrom, result,
                 simTime, updates, contacts, plugins>>

WorldCtor ==
  /\ pc = "World"
  /\ world' = "alive"
  /\ engine' = "alive"
  /\ listener' = "world"
  /\ Emit(<<Ev("new b2World", <<0, 0>>), Ev("SetContactListener(this)", <<>>)>>)
  /\ pc' = "LoadLayers"
  /\ UNCHANGED <<props, yLayers, yModels, files, bodies, cfrCount, layers_,
                 models_, live, i, k, args, exc, dtorFrom, result, simTime,
                 updates, contacts, plugins>>

\* ---------------------------------------------- World::LoadLayers, 150-181
\* CollisionFilterRegistry::IsLayersFull(): every layer built took one of
\* the MAX_LAYERS slots
IsLayersFull == cfrCount >= MAX_LAYERS

\* line 161 with the presence check left out, as for the optional `models`
LayersInvalid_Optional(sec) == Defined(sec) /\ ~IsSequence(sec)

\* line 161: !yaml["layers"] || !yaml["layers"].IsSequence()
LayersInvalid(sec) == ~Defined(sec) \/ ~IsSequence(sec)

\* lines 151-163: reload the file, require `layers` to be a sequence
LoadLayers ==
  /\ pc = "LoadLayers"
  /\ \E file \in FileStates, sec \in Sections(MAX_LAYERS + 1) :
       IF file = "unreadable"
       THEN /\ Throw(YAMLException(<<"Error loading ">> \o yaml_path))
            /\ UNCHANGED <<yLayers, i>>
       ELSE /\ yLayers' = sec
            /\ IF LayersInvalid(sec)
               THEN /\ Throw(YAMLException(
                         <<"Missing/invalid world param \"layers\"">>))
                    /\ UNCHANGED i
               ELSE /\ pc' = "LoadLayers_loop"
                    /\ i' = 0
                    /\ UNCHANGED exc
  /\ UNCHANGED <<props, yModels, files, world, engine, listener, bodies,
                 cfrCount, layers_, models_, live, k, args, dtorFrom, result,
                 simTime, updates, contacts, plugins, log>>

\* line 169 with the check left out
LayerLimitReached_Never == FALSE

\* line 169: if (cfr_.IsLayersFull())
LayerLimitReached == IsLayersFull

\* line 177 inserting at the front
PushLayer_Front(layers, layer) == <<layer>> \o layers

\* line 177: layers_.push_back(layer)
PushLayer(layers, layer) == Append(layers, layer)

\* lines 166-180, one iteration: the fullness check, Layer::MakeLayer on
\* entry i (which registers the layer in cfr_ and creates its body in the
\* engine), push_back
LoadLayers_loop ==
  /\ pc = "LoadLayers_loop"
  /\ i < yLayers.size
  /\ IF LayerLimitReached
     THEN /\ Throw(YAMLException(<<"Max number of layers reached, max is ",
                                   ToString(MAX_LAYERS)>>))
          /\ UNCHANGED <<layers_, cfrCount, bodies, live, i, log>>
     ELSE \E build \in Builds :
            /\ Emit(<<Ev("MakeLayer", <<i>>)>>)
            /\ IF build = "ok"
               THEN /\ layers_' = PushLayer(layers_,
                         [obj |-> LayerObj(i), entry |-> i, linked |-> TRUE])
                    /\ cfrCount' = cfrCount + 1
                    /\ bodies' = bodies \cup {BodyOf(LayerObj(i))}
                    /\ live' = live \cup {LayerObj(i)}
                    /\ i' = i + 1
                    /\ UNCHANGED <<pc, exc>>
               ELSE /\ Throw([type |-> build,
                            msg |-> <<"layer ", ToString(i)>>])
                    /\ UNCHANGED <<layers_, cfrCount, bodies, live, i>>
  /\ UNCHANGED <<props, yLayers, yModels, files, world, engine, listener,
                 models_, k, args, dtorFrom, result, simTime, updates,
                 contacts, plugins>>

\* the layer loop left before its last entry
LoadLayers_return_Early ==
  /\ pc = "LoadLayers_loop"
  /\ pc' = "LoadModels"
  /\ UNCHANGED <<props, yLayers, yModels, files, world, engine, listener,
                 bodies, cfrCount, layers_, models_, live, i, k, args, exc,
                 dtorFrom, result, simTime, updates, contacts, plugins, log>>

\* line 166, the loop's exit, and line 137
LoadLayers_return ==
  /\ pc = "LoadLayers_loop"
  /\ ~(i < yLayers.size)
  /\ pc' = "LoadModels"
  /\ UNCHANGED <<props, yLayers, yModels, files, world, engine, listener,
                 bodies, cfrCount, layers_, models_, live, i, k, args, exc,
                 dtorFrom, result, simTime, updates, contacts, plugins, log>>

\* ---------------------------------------------- World::LoadModels, 183-238
\* lines 184-196: reload the file; `models` is optional but must be a
\* sequence.  Without it LoadModels returns and MakeWorld returns w (147)
LoadModels ==
  /\ pc = "LoadModels"
  /\ \E file \in FileStates, sec \in Sections(MaxModels) :
       IF file = "unreadable"
       THEN /\ Throw(YAMLException(<<"Error loading ">> \o yaml_path))
            /\ UNCHANGED <<yModels, i, result>>
       ELSE /\ yModels' = [kind |-> sec.kind, size |-> sec.size, items |-> <<>>]
            /\ IF sec.kind = "absent"
               THEN /\ pc' = "running"
                    /\ result' = Returned
                    /\ UNCHANGED <<i, exc>>
               ELSE IF sec.kind # "seq"
               THEN /\ Throw(YAMLException(<<
                      "Invalid world param \"layers\", must be a sequence">>))
                    /\ UNCHANGED <<i, result>>
               ELSE /\ pc' = "LoadModels_loop"
                    /\ i' = 0
                    /\ UNCHANGED <<exc, result>>
  /\ UNCHANGED <<props, yLayers, files, world, engine, listener, bodies,
                 cfrCount, layers_, models_, live, k, args, dtorFrom, simTime,
                 updates, contacts, plugins, log>>

\* the loop going on to the next entry when an entry fails a check
LoadModels_loop_SkipsInvalid ==
  /\ pc = "LoadModels_loop"
  /\ i < yModels.size
  /\ \E node \in EntriesAt(i) :
       /\ yModels' = [yModels EXCEPT !.items = Append(@, node)]
       /\ \E out \in ValidateEntry(node, i) :
            IF out.exc # NoExc
            THEN i' = i + 1 /\ UNCHANGED <<pc, args, exc>>
            ELSE /\ args' = out.args
                 /\ pc' = "LoadModel"
                 /\ UNCHANGED <<i, exc>>
  /\ UNCHANGED <<props, yLayers, files, world, engine, listener, bodies,
                 cfrCount, layers_, models_, live, k, dtorFrom, result,
                 simTime, updates, contacts, plugins, log>>

\* lines 197-235, one iteration up to the call of LoadModel: the checks of
\* entry i
LoadModels_loop ==
  /\ pc = "LoadModels_loop"
  /\ i < yModels.size
  /\ \E node \in EntriesAt(i) :
       /\ yModels' = [yModels EXCEPT !.items = Append(@, node)]
       /\ \E out \in ValidateEntry(node, i) :
            IF out.exc # NoExc
            THEN Throw(out.exc) /\ UNCHANGED args
            ELSE /\ args' = out.args
                 /\ pc' = "LoadModel"
                 /\ UNCHANGED exc
  /\ UNCHANGED <<props, yLayers, files, world, engine, listener, bodies,
                 cfrCount, layers_, models_, live, i, k, dtorFrom, result,
                 simTime, updates, contacts, plugins, log>>

\* line 197, the loop's exit; LoadModels returns and MakeWorld returns w (147)
LoadModels_return ==
  /\ pc = "LoadModels_loop"
  /\ ~(i < yModels.size)
  /\ pc' = "running"
  /\ result' = Returned
  /\ UNCHANGED <<props, yLayers, yModels, files, world, engine, listener,
                 bodies, cfrCount, layers_, models_, live, i, k, args, exc,
                 dtorFrom, simTime, updates, contacts, plugins, log>>

\* ----------------------------------------------- World::LoadModel, 240-258
\* Model::TransformAll(pose) on a body at `at`
TransformAll(at, pose) ==
  <<at[1] + pose[1], at[2] + pose[2], at[3] + pose[3]>>

\* line 244 applying the pose twice
PlaceModel_Twice(m, pose) ==
  [m EXCEPT !.pose = TransformAll(TransformAll(@, pose), pose),
            !.transforms = @ + 2]

\* line 244: m->TransformAll(pose)
PlaceModel(m, pose) ==
  [m EXCEPT !.pose = TransformAll(@, pose), !.transforms = @ + 1]

\* line 245 left out
PushModel_Dropped(models, m) == models

\* line 245: models_.push_back(m)
PushModel(models, m) == Append(models, m)

\* line 248 with the type check left out
PluginsInvalid_Never(pnode) == FALSE

\* line 248: m->plugins_node_ && !m->plugins_node_.IsSequence()
PluginsInvalid(pnode) == Defined(pnode) /\ ~IsSequence(pnode)

\* the Model built for entry n, its body at the origin of its own frame
NewModel(n, a, pluginsNode) ==
  [obj |-> ModelObj(n), entry |-> n, name |-> a.name, ns |-> a.ns,
   path |-> a.path, pose |-> <<0, 0, 0>>, transforms |-> 0,
   plugins_node_ |-> pluginsNode]

\* what the `plugins` node of the model file at `path` can be: a file read
\* before reads the same again
PluginsNodes(path) ==
  IF files[path] = Unread THEN Sections(MaxPlugins) ELSE {files[path]}

\* lines 243-251: Model::MakeModel, TransformAll, push_back, then the check
\* of the model's `plugins` node
LoadModel ==
  /\ pc = "LoadModel"
  /\ \E build \in Builds, pnode \in PluginsNodes(args.path) :
       /\ Emit(<<Ev("MakeModel", <<i>>)>>)
       /\ IF build # "ok"
          THEN /\ Throw([type |-> build, msg |-> <<"model ">> \o args.path])
               /\ UNCHANGED <<models_, bodies, live, k, files>>
          ELSE LET m == NewModel(i, args, pnode)
                   moved == PlaceModel(m, args.pose)
               IN
               /\ files' = [files EXCEPT ![args.path] = pnode]
               /\ models_' = PushModel(models_, moved)
               /\ bodies' = bodies \cup {BodyOf(m.obj)}
               /\ live' = live \cup {m.obj}
               /\ IF PluginsInvalid(pnode)
                  THEN /\ Throw(YAMLException(<<"Invalid \"plugins\" in ">>
                            \o m.name \o <<" model, not a list">>))
                       /\ UNCHANGED k
                  ELSE /\ pc' = "LoadModel_plugins"
                       /\ k' = 0
                       /\ UNCHANGED exc
  /\ UNCHANGED <<props, yLayers, yModels, world, engine, listener, cfrCount,
                 layers_, i, args, dtorFrom, result, simTime, updates,
                 contacts, plugins>>

\* lines 252-254, one iteration: PluginManager::LoadModelPlugin on the
\* k-th declaration of the model
LoadModel_plugins ==
  /\ pc = "LoadModel_plugins"
  /\ k < models_[Len(models_)].plugins_node_.size
  /\ Emit(<<Ev("LoadModelPlugin", <<i, k>>)>>)
  /\ \E load \in PluginLoads :
       IF load = "ok"
       THEN /\ plugins' = Append(plugins, <<i, k>>)
            /\ k' = k + 1
            /\ UNCHANGED <<pc, exc>>
       ELSE /\ Throw([type |-> load, msg |-> <<"plugin ", ToString(k)>>])
            /\ UNCHANGED <<plugins, k>>
  /\ UNCHANGED <<props, yLayers, yModels, files, world, engine, listener,
                 bodies, cfrCount, layers_, models_, live, i, args, dtorFrom,
                 result, simTime, updates, contacts>>

\* lines 252 and 257, the loop's exit; LoadModel returns to the loop of
\* LoadModels (line 197, i++)
LoadModel_return ==
  /\ pc = "LoadModel_plugins"
  /\ ~(k < models_[Len(models_)].plugins_node_.size)
  /\ pc' = "LoadModels_loop"
  /\ i' = i + 1
  /\ UNCHANGED <<props, yLayers, yModels, files, world, engine, listener,
                 bodies, cfrCount, layers_, models_, live, k, args, exc,
                 dtorFrom, result, simTime, updates, contacts, plugins, log>>

\* ------------------------------------- World::MakeWorld, handlers 138-146
\* the handler of lines 138-141 without line 140
Catch_YAML_NoDelete ==
  /\ pc = "catch"
  /\ IsYAMLError(exc.type)
  /\ dtorFrom' = "catch_yaml"
  /\ pc' = "rethrow"
  /\ UNCHANGED <<props, yLayers, yModels, files, world, engine, listener,
                 bodies, cfrCount, layers_, models_, live, i, k, args, exc,
                 result, simTime, updates, contacts, plugins, log>>

\* catch (const YAML::Exception &e): ROS_FATAL, delete w
Catch_YAML ==
  /\ pc = "catch"
  /\ IsYAMLError(exc.type)
  /\ dtorFrom' = "catch_yaml"
  /\ pc' = "~World"
  /\ UNCHANGED <<props, yLayers, yModels, files, world, engine, listener,
                 bodies, cfrCount, layers_, models_, live, i, k, args, exc,
                 result, simTime, updates, contacts, plugins, log>>

\* the handler of lines 142-145 without line 144
Catch_Plugin_NoDelete ==
  /\ pc = "catch"
  /\ ~IsYAMLError(exc.type)
  /\ exc.type = "PluginException"
  /\ dtorFrom' = "catch_plugin"
  /\ pc' = "rethrow"
  /\ UNCHANGED <<props, yLayers, yModels, files, world, engine, listener,
                 bodies, cfrCount, layers_, models_, live, i, k, args, exc,
                 result, simTime, updates, contacts, plugins, log>>

\* catch (const PluginException &e): ROS_FATAL, delete w
Catch_Plugin ==
  /\ pc = "catch"
  /\ ~IsYAMLError(exc.type)
  /\ exc.type = "PluginException"
  /\ dtorFrom' = "catch_plugin"
  /\ pc' = "~World"
  /\ UNCHANGED <<props, yLayers, yModels, files, world, engine, listener,
                 bodies, cfrCount, layers_, models_, live, i, k, args, exc,
                 result, simTime, updates, contacts, plugins, log>>

\* line 141: throw YAMLException(e)
Rethrow_YAML ==
  /\ pc = "rethrow"
  /\ dtorFrom = "catch_yaml"
  /\ result' = Raised(YAMLException(exc.msg))
  /\ pc' = "failed"
  /\ UNCHANGED <<props, yLayers, yModels, files, world, engine, listener,
                 bodies, cfrCount, layers_, models_, live, i, k, args, exc,
                 dtorFrom, simTime, updates, contacts, plugins, log>>

\* line 145: throw e
Rethrow_Plugin ==
  /\ pc = "rethrow"
  /\ dtorFrom = "catch_plugin"
  /\ result' = Raised(exc)
  /\ pc' = "failed"
  /\ UNCHANGED <<props, yLayers, yModels, files, world, engine, listener,
                 bodies, cfrCount, layers_, models_, live, i, k, args, exc,
                 dtorFrom, simTime, updates, contacts, plugins, log>>

\* the caller of MakeWorld deletes the World it was given
DeleteWorld ==
  /\ pc = "running"
  /\ dtorFrom' = "caller"
  /\ pc' = "~World"
  /\ UNCHANGED <<props, yLayers, yModels, files, world, engine, listener,
                 bodies, cfrCount, layers_, models_, live, i, k, args, exc,
                 result, simTime, updates, contacts, plugins, log>>

\* ------------------------------------------------ World::~World, 64-92
\* every callback forwarded as the one of lines 101-103
Callback_AsBegin(kind, c) ==
  <<Ev("World::" \o kind, <<c>>), Ev("PluginManager::BeginContact", <<c>>)>>

\* a contact callback of the engine on its listener, which World forwards to
\* PluginManager (lines 101-115)
Callback(kind, c) ==
  <<Ev("World::" \o kind, <<c>>), Ev("PluginManager::" \o kind, <<c>>)>>

\* b2World::DestroyBody on a body in contact: the engine ends the contact
\* and tells its listener, if it has one
DestroyBody(touching) ==
  IF touching /\ listener = "world" /\ contacts < MaxContacts
  THEN Callback("EndContact", contacts + 1)
  ELSE <<>>

\* the destructor is entered (line 65) without touching the listener
Dtor_KeepListener ==
  /\ pc = "~World"
  /\ Emit(<<Ev("~World", <<>>)>>)
  /\ pc' = "~World_layers"
  /\ i' = 0
  /\ UNCHANGED <<props, yLayers, yModels, files, world, engine, listener,
                 bodies, cfrCount, layers_, models_, live, k, args, exc,
                 dtorFrom, result, simTime, updates, contacts, plugins>>

\* lines 64-70: the destructor is entered, and first of all
\* physics_world_->SetContactListener(nullptr)
Dtor_RemoveListener ==
  /\ pc = "~World"
  /\ listener' = "nullptr"
  /\ Emit(<<Ev("~World", <<>>), Ev("SetContactListener(nullptr)", <<>>)>>)
  /\ pc' = "~World_layers"
  /\ i' = 0
  /\ UNCHANGED <<props, yLayers, yModels, files, world, engine, bodies,
                 cfrCount, layers_, models_, live, k, args, exc, dtorFrom,
                 result, simTime, updates, contacts, plugins>>

\* line 77 left out
UnlinkBody_Skipped(l) == l

\* line 77: layers_[i]->body_->physics_body_ = nullptr
UnlinkBody(l) == [l EXCEPT !.linked = FALSE]

\* the destructor of a layer's body wrapper asks the engine to destroy the
\* physics body only if the wrapper is still linked to one (comment of
\* lines 72-75)
Body_DestroysPhysicsBody(l) == l.linked

\* lines 76-79, one iteration: unlink the layer's physics body, delete the
\* layer
Dtor_Layer ==
  /\ pc = "~World_layers"
  /\ i < Len(layers_)
  /\ LET l == UnlinkBody(layers_[i + 1]) IN
     \E touching \in BOOLEAN :
       LET cb == IF Body_DestroysPhysicsBody(l)
                 THEN <<Ev("DestroyBody layer", <<l.entry>>)>>
                        \o DestroyBody(touching)
                 ELSE <<>>
       IN
       /\ layers_' = [layers_ EXCEPT ![i + 1] = l]
       /\ live' = live \ {l.obj}
       /\ bodies' = IF Body_DestroysPhysicsBody(l)
                     THEN bodies \ {BodyOf(l.obj)}
                     ELSE bodies
       /\ contacts' = contacts + (Len(cb) \div 3)
       /\ Emit(<<Ev("physics_body_ = nullptr", <<l.entry>>),
                 Ev("delete Layer", <<l.entry>>)>> \o cb)
  /\ i' = i + 1
  /\ UNCHANGED <<pc, props, yLayers, yModels, files, world, engine, listener,
                 cfrCount, models_, k, args, exc, dtorFrom, result, simTime,
                 updates, plugins>>

\* the exit of the layer loop going straight to line 89
Dtor_LayersDone_SkipModels ==
  /\ pc = "~World_layers"
  /\ ~(i < Len(layers_))
  /\ pc' = "~World_engine"
  /\ i' = 0
  /\ UNCHANGED <<props, yLayers, yModels, files, world, engine, listener,
                 bodies, cfrCount, layers_, models_, live, k, args, exc,
                 dtorFrom, result, simTime, updates, contacts, plugins, log>>

\* line 76, the loop's exit
Dtor_LayersDone ==
  /\ pc = "~World_layers"
  /\ ~(i < Len(layers_))
  /\ pc' = "~World_models"
  /\ i' = 0
  /\ UNCHANGED <<props, yLayers, yModels, files, world, engine, listener,
                 bodies, cfrCount, layers_, models_, live, k, args, exc,
                 dtorFrom, result, simTime, updates, contacts, plugins, log>>

\* lines 84-86, one iteration: delete the model, whose destructor destroys
\* its body in the engine
Dtor_Model ==
  /\ pc = "~World_models"
  /\ i < Len(models_)
  /\ LET m == models_[i + 1] IN
     \E touching \in BOOLEAN :
       LET cb == DestroyBody(touching) IN
       /\ live' = live \ {m.obj}
       /\ bodies' = bodies \ {BodyOf(m.obj)}
       /\ contacts' = contacts + (Len(cb) \div 2)
       /\ Emit(<<Ev("delete Model", <<m.entry>>),
                 Ev("DestroyBody model", <<m.entry>>)>> \o cb)
  /\ i' = i + 1
  /\ UNCHANGED <<pc, props, yLayers, yModels, files, world, engine, listener,
                 cfrCount, layers_, models_, k, args, exc, dtorFrom, result,
                 simTime, updates, plugins>>

\* line 84, the loop's exit
Dtor_ModelsDone ==
  /\ pc = "~World_models"
  /\ ~(i < Len(models_))
  /\ pc' = "~World_engine"
  /\ UNCHANGED <<props, yLayers, yModels, files, world, engine, listener,
                 bodies, cfrCount, layers_, models_, live, i, k, args, exc,
                 dtorFrom, result, simTime, updates, contacts, plugins, log>>

\* line 89: delete physics_world_, which frees every body left in it; then
\* the World object itself is gone and control returns to who deleted it
Dtor_Engine ==
  /\ pc = "~World_engine"
  /\ engine' = "destroyed"
  /\ bodies' = {}
  /\ world' = "freed"
  /\ Emit(<<Ev("delete b2World", <<>>)>>)
  /\ pc' = IF dtorFrom = "caller" THEN "destroyed" ELSE "rethrow"
  /\ UNCHANGED <<props, yLayers, yModels, files, listener, cfrCount, layers_,
                 models_, live, i, k, args, exc, dtorFrom, result, simTime,
                 updates, contacts, plugins>>

\* ------------------------------------------------- World::Update, 94-99
\* line 95
Update_Before ==
  /\ pc = "running"
  /\ updates < MaxUpdates
  /\ updates' = updates + 1
  /\ Emit(<<Ev("BeforePhysicsStep", <<>>)>>)
  /\ pc' = "Update_Step"
  /\ UNCHANGED <<props, yLayers, yModels, files, world, engine, listener,
                 bodies, cfrCount, layers_, models_, live, i, k, args, exc,
                 dtorFrom, result, simTime, contacts, plugins>>

\* line 96: the call of b2World::Step with the timekeeper's step size
Update_Step ==
  /\ pc = "Update_Step"
  /\ Emit(<<Ev("Step", <<StepSize, 10, 10>>)>>)
  /\ pc' = "in_Step"
  /\ UNCHANGED <<props, yLayers, yModels, files, world, engine, listener,
                 bodies, cfrCount, layers_, models_, live, i, k, args, exc,
                 dtorFrom, result, simTime, updates, contacts, plugins>>

\* the names of the four callbacks of World
WorldOp == [kind \in ContactKinds |-> "World::" \o kind]
WorldOps == {WorldOp[kind] : kind \in ContactKinds}

\* the callbacks the engine has made on World, in order
IsEngineCall(e) == e.op \in WorldOps
EngineCalls == SelectSeq(log, IsEngineCall)

\* the callback the engine can make next on the contact of the one pair of
\* fixtures that touch in this world: a contact begins, is then solved
\* (PreSolve, PostSolve) step after step, and ends
NextContactKinds ==
  LET last == IF EngineCalls = <<>> THEN "none"
              ELSE EngineCalls[Len(EngineCalls)].op
  IN
  CASE last \in {"none", "World::EndContact"} -> {"BeginContact"}
    [] last = "World::BeginContact" -> {"PreSolve", "EndContact"}
    [] last = "World::PreSolve" -> {"PostSolve", "EndContact"}
    [] last = "World::PostSolve" -> {"PreSolve", "EndContact"}

\* a forwarding callback that also takes World off the engine
Contact_Unregisters ==
  /\ pc = "in_Step"
  /\ engine = "alive"
  /\ listener = "world"
  /\ contacts < MaxContacts
  /\ \E kind \in NextContactKinds :
       Emit(Callback(kind, contacts + 1))
  /\ contacts' = contacts + 1
  /\ listener' = "nullptr"
  /\ UNCHANGED <<pc, props, yLayers, yModels, files, world, engine, bodies,
                 cfrCount, layers_, models_, live, i, k, args, exc, dtorFrom,
                 result, simTime, updates, plugins>>

\* lines 101-115: inside its step the engine calls back its listener, and
\* World hands the call to PluginManager
Contact ==
  /\ pc = "in_Step"
  /\ engine = "alive"
  /\ listener = "world"
  /\ contacts < MaxContacts
  /\ \E kind \in NextContactKinds :
       Emit(Callback(kind, contacts + 1))
  /\ contacts' = contacts + 1
  /\ UNCHANGED <<pc, props, yLayers, yModels, files, world, engine, listener,
                 bodies, cfrCount, layers_, models_, live, i, k, args, exc,
                 dtorFrom, result, simTime, updates, plugins>>

\* line 96: b2World::Step returns
Update_StepReturn ==
  /\ pc = "in_Step"
  /\ Emit(<<Ev("Step returns", <<>>)>>)
  /\ pc' = "Update_StepTime"
  /\ UNCHANGED <<props, yLayers, yModels, files, world, engine, listener,
                 bodies, cfrCount, layers_, models_, live, i, k, args, exc,
                 dtorFrom, result, simTime, updates, contacts, plugins>>

\* Update without line 97
Update_StepTime_Skipped ==
  /\ pc = "Update_StepTime"
  /\ pc' = "Update_After"
  /\ UNCHANGED <<props, yLayers, yModels, files, world, engine, listener,
                 bodies, cfrCount, layers_, models_, live, i, k, args, exc,
                 dtorFrom, result, simTime, updates, contacts, plugins, log>>

\* Timekeeper::StepTime(): the clock advances by the step size
Timekeeper_StepTime(t) == t + StepSize

\* line 97: timekeeper.StepTime()
Update_StepTime ==
  /\ pc = "Update_StepTime"
  /\ simTime' = Timekeeper_StepTime(simTime)
  /\ Emit(<<Ev("StepTime", <<>>)>>)
  /\ pc' = "Update_After"
  /\ UNCHANGED <<props, yLayers, yModels, files, world, engine, listener,
                 bodies, cfrCount, layers_, models_, live, i, k, args, exc,
                 dtorFrom, result, updates, contacts, plugins>>

\* line 98
Update_After ==
  /\ pc = "Update_After"
  /\ Emit(<<Ev("AfterPhysicsStep", <<>>)>>)
  /\ pc' = "running"
  /\ UNCHANGED <<props, yLayers, yModels, files, world, engine, listener,
                 bodies, cfrCount, layers_, models_, live, i, k, args, exc,
                 dtorFrom, result, simTime, updates, contacts, plugins>>

\* ---------------------------------------------------------- specification
Next ==
  \/ MakeWorld
  \/ WorldCtor
  \/ LoadLayers
  \/ LoadLayers_loop
  \/ LoadLayers_return
  \/ LoadModels
  \/ LoadModels_loop
  \/ LoadModels_return
  \/ LoadModel
  \/ LoadModel_plugins
  \/ LoadModel_return
  \/ Catch_YAML
  \/ Catch_Plugin
  \/ Rethrow_YAML
  \/ Rethrow_Plugin
  \/ DeleteWorld
  \/ Dtor_RemoveListener
  \/ Dtor_Layer
  \/ Dtor_LayersDone
  \/ Dtor_Model
  \/ Dtor_ModelsDone
  \/ Dtor_Engine
  \/ Update_Before
  \/ Update_Step
  \/ Contact
  \/ Update_StepReturn
  \/ Update_StepTime
  \/ Update_After

Spec == Init /\ [][Next]_vars

\* ------------------------------------------------------- reading the log
\* the positions of the log at which `op` was called
At(op) == {n \in 1..Len(log) : log[n].op = op}

Deletes == At("delete Layer") \cup At("delete Model")

ContactOps ==
  {"World::" \o kind : kind \in ContactKinds}
    \cup {"PluginManager::" \o kind : kind \in ContactKinds}

\* the Layer and Model objects the World holds pointers to
Held ==
  {layers_[n].obj : n \in 1..Len(layers_)}
    \cup {models_[n].obj : n \in 1..Len(models_)}

LayersFreed == \A n \in 1..Len(layers_) : layers_[n].obj \notin live
ModelsFreed == \A n \in 1..Len(models_) : models_[n].obj \notin live

\* every layer and every model was deleted exactly once, in the order of the
\* teardown contract, and nothing of the World is left
TornDown ==
  /\ world = "freed"
  /\ engine = "destroyed"
  /\ listener = "nullptr"
  /\ live = {}
  /\ bodies = {}
  /\ \A n \in 1..Len(layers_) :
       Cardinality({d \in At("delete Layer") :
                      log[d].arg = <<layers_[n].entry>>}) = 1
  /\ \A n \in 1..Len(models_) :
       Cardinality({d \in At("delete Model") :
                      log[d].arg = <<models_[n].entry>>}) = 1
  /\ Cardinality(At("delete b2World")) = 1

\* the positions at which control is inside MakeWorld's try block, loading
Loading ==
  {"LoadLayers", "LoadLayers_loop", "LoadModels", "LoadModels_loop",
   "LoadModel", "LoadModel_plugins"}
\* the positions of World::Update
Updating == {"Update_Step", "in_Step", "Update_StepTime", "Update_After"}
\* the positions of the destructor past its line 70
Destructing == {"~World_layers", "~World_models", "~World_engine"}

\* ------------------------------------------------------------------ claims
\* C1: teardown is one total order: the contact listener is deregistered
\* before any layer or model is deleted, every layer is deleted before any
\* model, and the engine is deleted only after every layer and every model,
\* whoever started the teardown.
C1_TeardownOrder ==
  /\ \A d \in Deletes :
       \E r \in At("SetContactListener(nullptr)") : r < d
  /\ Held \ live # {} => listener = "nullptr"
  /\ \A l \in At("delete Layer") : \A m \in At("delete Model") : l < m
  /\ \A n \in 1..Len(models_) :
       models_[n].obj \notin live => LayersFreed
  /\ At("delete Model") # {} => LayersFreed
  /\ \A e \in At("delete b2World") : \A d \in Deletes : d < e
  /\ engine = "destroyed" => LayersFreed /\ ModelsFreed /\ TornDown
  /\ pc \in {"destroyed", "failed"} /\ world # "none" => TornDown

\* a World with layers and models torn down after a load failure
C1_Witness ==
  /\ pc = "failed"
  /\ dtorFrom = "catch_yaml"
  /\ Len(layers_) >= 2
  /\ Len(models_) >= 2
  /\ TornDown

\* C2: a description error raised by LoadLayers or LoadModels (by World
\* itself or by yaml-cpp or a builder) ends MakeWorld with the World torn
\* down in full and a description error raised to the caller; no World is
\* returned and none is left.
C2_DescriptionErrorTearsDown ==
  IsYAMLError(exc.type) =>
    /\ pc \in {"catch", "~World", "rethrow", "failed"} \cup Destructing
    /\ result.kind # "world"
    /\ updates = 0
    /\ dtorFrom \in {"none", "catch_yaml"}
    /\ pc = "failed" =>
         /\ result = Raised(YAMLException(exc.msg))
         /\ TornDown

\* MakeWorld failed on a description error with layers and a model built
C2_Witness ==
  /\ pc = "failed"
  /\ exc.type = "YAMLException"
  /\ Len(layers_) >= 1
  /\ Len(models_) >= 1
  /\ result.kind = "error"

\* C3: a PluginException of LoadModelPlugin, for any plugin of any model,
\* ends MakeWorld with a PluginException, and no layer, model or engine is
\* left.
C3_PluginErrorTearsDown ==
  exc.type = "PluginException" =>
    /\ pc \in {"catch", "~World", "rethrow", "failed"} \cup Destructing
    /\ result.kind # "world"
    /\ updates = 0
    /\ dtorFrom \in {"none", "catch_plugin"}
    /\ \E n \in At("LoadModelPlugin") :
         /\ log[n].arg = <<Len(models_) - 1, k>>
         /\ \A m \in At("LoadModelPlugin") \cup At("MakeModel")
                       \cup At("MakeLayer") : m <= n
    /\ pc = "failed" =>
         /\ result = Raised(exc)
         /\ TornDown

\* the second plugin of the second model failed; a layer, a model and
\* plugins were loaded before it
C3_Witness ==
  /\ pc = "failed"
  /\ exc.type = "PluginException"
  /\ result.kind = "error"
  /\ Len(layers_) >= 1
  /\ Len(models_) = 2
  /\ k = 1
  /\ Len(plugins) >= 2

UpdateOps ==
  <<"BeforePhysicsStep", "Step", "Step returns", "StepTime",
    "AfterPhysicsStep">>
IsUpdateEv(e) == \E n \in 1..Len(UpdateOps) : e.op = UpdateOps[n]
\* the calls World::Update made, in order
UpdateTrace == SelectSeq(log, IsUpdateEv)
\* how many calls of an Update at position p are behind it
DoneOfUpdate(p) ==
  CASE p = "Update_Step" -> 1
    [] p = "in_Step" -> 2
    [] p = "Update_StepTime" -> 3
    [] p = "Update_After" -> 4

C5_ListenerWhileAlive ==
  /\ world = "none" =>
       engine = "none" /\ listener = "nullptr"
         /\ At("SetContactListener(this)") = {}
  /\ world # "none" =>
       At("SetContactListener(this)") = {2} /\ log[1].op = "new b2World"
  /\ pc \in Loading \cup Updating \cup {"catch", "running", "~World"} =>
       world = "alive" /\ engine = "alive" /\ listener = "world"
  /\ Held \ live # {} => listener = "nullptr"
  /\ world = "freed" => listener = "nullptr"

\* the engine is inside a step, has called back, and World is still its
\* listener
C5_Witness ==
  /\ pc = "in_Step"
  /\ contacts >= 1
  /\ listener = "world"

\* C6: from the moment the destructor is entered no contact callback reaches
\* World or PluginManager: none while layers and models are deleted, none
\* after the engine is deleted.
C6_NoCallbackAfterTeardown ==
  \A d \in At("~World") :
    \A n \in (d + 1)..Len(log) : log[n].op \notin ContactOps

\* a World that forwarded a callback is torn down, models included
C6_Witness ==
  /\ pc = "destroyed"
  /\ contacts >= 1
  /\ Len(layers_) >= 1
  /\ Len(models_) >= 1
  /\ At("DestroyBody model") # {}

\* C7: `properties` missing or not a map: MakeWorld fails with a
\* YAMLException before anything is constructed; no engine, no listener, no
\* layer, no model, and no call was made on any collaborator.
C7_PropertiesInvalid ==
  props.kind \in {"absent", "scalar"} =>
    /\ pc = "failed"
    /\ result = Raised(YAMLException(
         <<"Missing/invalid world param \"properties\"">>))
    /\ world = "none"
    /\ engine = "none"
    /\ listener = "nullptr"
    /\ layers_ = <<>> /\ models_ = <<>>
    /\ live = {} /\ bodies = {}
    /\ log = <<>>

\* `properties` is a scalar and MakeWorld has failed
C7_Witness ==
  /\ props.kind = "scalar"
  /\ pc = "failed"

\* layers_ holds one layer for each of the N entries, in their order
LayersComplete ==
  /\ Len(layers_) = yLayers.size
  /\ \A n \in 1..Len(layers_) :
       layers_[n].entry = n - 1 /\ layers_[n].obj = LayerObj(n - 1)
  /\ \A e \in 0..(yLayers.size - 1) :
       Cardinality({n \in At("MakeLayer") : log[n].arg = <<e>>}) = 1

\* C8: for a description with N <= MAX_LAYERS layer entries World raises no
\* error of its own about the layers, and once the layers are loaded, and
\* in the World MakeWorld returns, layers_ has exactly N entries, the n-th
\* being the layer built from the n-th entry.
C8_LayersInOrder ==
  /\ (/\ yLayers.kind = "seq"
      /\ yLayers.size <= MAX_LAYERS
      /\ yModels.kind = "unread")
       => exc.type = "none" \/ exc.msg[1] \in {"layer ", "Error loading "}
  /\ pc \in {"LoadModels", "LoadModels_loop", "LoadModel", "LoadModel_plugins",
              "running"} \cup Updating => LayersComplete
  /\ result.kind = "world" =>
       /\ yLayers.kind = "seq"
       /\ yLayers.size <= MAX_LAYERS
       /\ LayersComplete

\* a World with MAX_LAYERS layers was returned
C8_Witness ==
  /\ result.kind = "world"
  /\ world = "alive"
  /\ yLayers.size = MAX_LAYERS
  /\ Len(layers_) = MAX_LAYERS

MaxLayersError ==
  YAMLException(<<"Max number of layers reached, max is ",
                  ToString(MAX_LAYERS)>>)

\* C9: MAX_LAYERS entries load, MAX_LAYERS + 1 entries fail with the
\* YAMLException that names the limit, and layers_ never holds more than
\* MAX_LAYERS layers.
C9_LayerLimit ==
  /\ Len(layers_) <= MAX_LAYERS
  /\ cfrCount = Len(layers_)
  /\ exc = MaxLayersError =>
       yLayers.size > MAX_LAYERS /\ Len(layers_) = MAX_LAYERS
  /\ yLayers.size <= MAX_LAYERS => exc # MaxLayersError
  /\ yLayers.size > MAX_LAYERS =>
       /\ pc \in {"LoadLayers_loop", "catch", "~World", "rethrow", "failed"}
                   \cup Destructing
       /\ result.kind # "world"
       /\ pc = "LoadLayers_loop" => exc = NoExc /\ i = Len(layers_)
       /\ exc.type = "YAMLException" /\ Len(layers_) = MAX_LAYERS =>
            exc = MaxLayersError
       /\ pc = "failed" => result.exc.type = "YAMLException"

\* the description had MAX_LAYERS + 1 entries and MakeWorld failed at the
\* last one
C9_Witness ==
  /\ pc = "failed"
  /\ yLayers.size = MAX_LAYERS + 1
  /\ result = Raised(MaxLayersError)
  /\ Cardinality(At("MakeLayer")) = MAX_LAYERS

MissingLayersError ==
  YAMLException(<<"Missing/invalid world param \"layers\"">>)

\* C10: `layers` missing or not a sequence: MakeWorld fails with a
\* YAMLException, no layer was built and no model load was attempted.
C10_LayersInvalid ==
  yLayers.kind \in {"absent", "map"} =>
    /\ exc = MissingLayersError
    /\ pc \in {"catch", "~World", "rethrow", "failed"} \cup Destructing
    /\ result.kind # "world"
    /\ layers_ = <<>> /\ models_ = <<>> /\ plugins = <<>>
    /\ yModels.kind = "unread"
    /\ At("MakeLayer") \cup At("MakeModel") \cup At("LoadModelPlugin") = {}
    /\ pc = "failed" => result = Raised(MissingLayersError)

\* `layers` is a map and MakeWorld has failed
C10_Witness ==
  /\ yLayers.kind = "map"
  /\ pc = "failed"
  /\ world = "freed"

\* ------------------------------------------- the entries of `models` read
\* the entry of `models` read last, and its index
LastEntry == yModels.items[Len(yModels.items)]
LastIndex == Len(yModels.items) - 1

\* LoadModel was not called for the entry read last
Rejected ==
  /\ pc # "LoadModel"
  /\ \A n \in At("MakeModel") : log[n].arg # <<LastIndex>>

\* a `pose` that is a sequence of exactly 3 numeric values
PoseValid(node) ==
  /\ Defined(node.pose)
  /\ IsSequence(node.pose)
  /\ Len(node.pose.val) = 3
  /\ \A n \in 1..3 : CanAsDouble(node.pose.val[n])

\* the entry lacks `name`, lacks a valid `pose`, or lacks `model`
EntryLacks(node) ==
  ~Defined(node.name) \/ ~PoseValid(node) \/ ~Defined(node.model)

\* the message names the entry: by its index or by its name
Identifies(msg, node, idx) ==
  \E n \in 1..Len(msg) :
    \/ msg[n] = ToString(idx)
    \/ /\ CanAsString(node.name)
       /\ node.name.val # <<>>
       /\ msg[n] = node.name.val[1]

\* C11: an entry of `models` without `name`, without `pose` or with a `pose`
\* that is not a sequence of exactly 3 numbers, or without `model`, makes
\* MakeWorld fail with a YAMLException whose message names the entry (its
\* index or its name); an entry with the three fields and no `namespace` is
\* passed to LoadModel with the namespace "".
C11_ModelEntryValidation ==
  yModels.items # <<>> =>
    LET node == LastEntry
        idx == LastIndex
    IN
    /\ EntryLacks(node) =>
         /\ Rejected
         /\ IsYAMLError(exc.type)
         /\ Identifies(exc.msg, node, idx)
         /\ result.kind # "world"
         /\ pc = "failed" =>
              /\ result.exc.type = "YAMLException"
              /\ Identifies(result.exc.msg, node, idx)
    /\ (/\ ~EntryLacks(node)
        /\ CanAsString(node.name)
        /\ CanAsString(node.model)
        /\ ~Defined(node.ns)) =>
         /\ ~Rejected
         /\ pc = "LoadModel" => args.ns = <<>>
         /\ \A n \in 1..Len(models_) :
              models_[n].entry = idx => models_[n].ns = <<>>

\* a path that begins with the root
IsAbsolute(p) == p # <<>> /\ p[1] = "/"

\* the directory of the top-level description
BaseDir == <<"/", "a", "/", "b">>

\* the path the entry's `model` stands for: itself if absolute, else the
\* description's directory joined with it
ExpectedPath(p) ==
  IF IsAbsolute(p) THEN p
  ELSE IF p = <<>> THEN BaseDir
  ELSE BaseDir \o <<"/">> \o p

PoseOf(node) ==
  <<AsDouble(node.pose.val[1]), AsDouble(node.pose.val[2]),
    AsDouble(node.pose.val[3])>>

\* C13: in every state, during loading, stepping and teardown, each model
\* has been transformed exactly once and stands at exactly the (x, y, theta)
\* of its own entry; its pose is therefore a function of the description
\* alone, the same in every World loaded from it.
C13_PoseAppliedOnce ==
  \A n \in 1..Len(models_) :
    LET node == yModels.items[models_[n].entry + 1] IN
    /\ models_[n].transforms = 1
    /\ models_[n].pose = PoseOf(node)
    /\ node = EntryA => models_[n].pose = <<1, 2, 0>>
    /\ node = EntryB => models_[n].pose = <<2, 1, 1>>

\* two models with plugins were loaded and an Update has run
C13_Witness ==
  /\ pc = "running"
  /\ updates >= 1
  /\ Len(models_) = 2
  /\ Len(plugins) >= 2
  /\ models_[1].pose = <<1, 2, 0>>
  /\ models_[2].pose = <<2, 1, 1>>

\* the calls that build a model or load a plugin
ModelCalls == At("MakeModel") \cup At("LoadModelPlugin")

\* C14: every layer is built before any model: every MakeLayer call
\* precedes every MakeModel and LoadModelPlugin call, LoadModels starts
\* only when layers_ holds a layer for every entry of `layers`, and when
\* LoadLayers fails no model is built and no plugin loaded, then or later.
C14_LayersBeforeModels ==
  /\ \A l \in At("MakeLayer") : \A m \in ModelCalls : l < m
  /\ yModels.kind # "unread" => LayersComplete
  /\ ModelCalls # {} \/ models_ # <<>> \/ plugins # <<>> =>
       yModels.kind = "seq" /\ LayersComplete
  /\ yModels.kind = "unread" =>
       ModelCalls = {} /\ models_ = <<>> /\ plugins = <<>>
  /\ exc # NoExc /\ yModels.kind = "unread" =>
       pc \in {"catch", "~World", "rethrow", "failed"} \cup Destructing

\* models and plugins were loaded after MAX_LAYERS layers
C14_Witness ==
  /\ pc = "running"
  /\ Len(layers_) = MAX_LAYERS
  /\ Len(models_) = 2
  /\ plugins # <<>>
  /\ updates = 0

\* the names of the four contact methods of PluginManager
ManagerOp == [kind \in ContactKinds |-> "PluginManager::" \o kind]
ManagerOps == {ManagerOp[kind] : kind \in ContactKinds}

\* the contact calls PluginManager has received, in order
IsForwarded(e) == e.op \in ManagerOps
Forwarded == SelectSeq(log, IsForwarded)

\* e is the engine's callback of some kind and f the PluginManager call of
\* the same kind with the same argument
SameCall(e, f) ==
  \E kind \in ContactKinds :
    /\ e.op = WorldOp[kind]
    /\ f.op = ManagerOp[kind]
    /\ f.arg = e.arg

\* C15: the calls PluginManager receives are the callbacks the engine made,
\* one for one, in the same order, of the same kind and with the same
\* argument, and each follows its callback at once: nothing happens between
\* the engine's call and the forwarded call.
C15_PassThrough ==
  /\ Len(EngineCalls) = contacts
  /\ Len(Forwarded) = Len(EngineCalls)
  /\ \A n \in 1..Len(Forwarded) :
       /\ SameCall(EngineCalls[n], Forwarded[n])
       /\ EngineCalls[n].arg = <<n>>
  /\ \A n \in 1..Len(log) :
       /\ IsEngineCall(log[n]) =>
            n < Len(log) /\ SameCall(log[n], log[n + 1])
       /\ IsForwarded(log[n]) =>
            n > 1 /\ SameCall(log[n - 1], log[n])

\* a contact began, was solved and the Update returned: three callbacks of
\* three kinds were forwarded
C15_Witness ==
  /\ pc = "running"
  /\ Len(Forwarded) = 3
  /\ Forwarded[1].op = "PluginManager::BeginContact"
  /\ Forwarded[2].op = "PluginManager::PreSolve"
  /\ Forwarded[3].op = "PluginManager::PostSolve"

\* C16: every layer is deleted right after its body wrapper was unlinked
\* from its physics body, the engine is never asked to destroy a layer's
\* body: the bodies of the layers stay in the engine until the one call
\* that deletes the engine.
C16_LayersUnlinkedNotDestroyed ==
  /\ \A d \in At("delete Layer") :
       /\ d > 1
       /\ log[d - 1] = Ev("physics_body_ = nullptr", log[d].arg)
  /\ At("DestroyBody layer") = {}
  /\ \A n \in 1..Len(layers_) :
       /\ layers_[n].obj \notin live => ~layers_[n].linked
       /\ layers_[n].obj \in live => layers_[n].linked
       /\ engine = "alive" => BodyOf(layers_[n].obj) \in bodies
       /\ Cardinality({e \in At("physics_body_ = nullptr") :
                         log[e].arg = <<layers_[n].entry>>}) <= 1
  /\ Cardinality(At("delete b2World")) <= 1
  /\ engine = "destroyed" =>
       bodies = {} /\ Cardinality(At("delete b2World")) = 1

\* the layers of a World are freed, its models not yet, and the engine
\* still holds the layers' bodies
C16_Witness ==
  /\ pc = "~World_models"
  /\ Len(layers_) = MAX_LAYERS
  /\ LayersFreed
  /\ Len(models_) >= 1
  /\ \A n \in 1..Len(layers_) : BodyOf(layers_[n].obj) \in bodies

\* the LoadModelPlugin calls made for the model of entry e
PluginCallsOf(e) == {p \in At("LoadModelPlugin") : log[p].arg[1] = e}

\* the model of entry e is behind the loader: LoadModel has returned for it
ModelDone(e) ==
  \/ e + 1 < Len(yModels.items)
  \/ pc = "LoadModels_loop" /\ i > e
  \/ result.kind = "world"

InvalidPluginsError(name) ==
  YAMLException(<<"Invalid \"plugins\" in ">> \o name
                  \o <<" model, not a list">>)

\* C17: the declarations of a model's `plugins` are handed to
\* LoadModelPlugin once each and in their order, after the model was built
\* and appended to models_ and before the next entry's model is built; a
\* model without `plugins` gets no call, and `plugins` that is not a
\* sequence fails with a YAMLException and gets no call either.
C17_PluginsConsumedOnce ==
  /\ \A p \in At("LoadModelPlugin") :
       \E n \in 1..Len(models_) : models_[n].entry = log[p].arg[1]
  /\ \A n \in 1..Len(models_) :
       LET e == models_[n].entry
           node == models_[n].plugins_node_
           calls == PluginCallsOf(e)
       IN
       /\ \A p \in calls :
            /\ log[p].arg[2] = Cardinality({q \in calls : q < p})
            /\ \A m \in At("MakeModel") :
                 /\ log[m].arg = <<e>> => m < p
                 /\ log[m].arg[1] > e => p < m
       /\ Cardinality(calls) <= node.size
       /\ ModelDone(e) =>
            /\ node.kind \in {"absent", "seq"}
            /\ Cardinality(calls) = node.size
            /\ \A j \in 0..(node.size - 1) :
                 Cardinality({q \in 1..Len(plugins) : plugins[q] = <<e, j>>})
                   = 1
       /\ node.kind = "absent" => calls = {}
       /\ node.kind = "absent" /\ ~ModelDone(e) =>
            pc = "LoadModel_plugins" /\ exc = NoExc
       /\ node.kind = "map" =>
            /\ calls = {}
            /\ n = Len(models_)
            /\ exc = InvalidPluginsError(models_[n].name)
            /\ result.kind # "world"
            /\ pc = "failed" => result = Raised(exc)

\* a model without `plugins` and a model with two declarations were loaded
C17_Witness ==
  /\ pc = "running"
  /\ Len(models_) = 2
  /\ models_[1].plugins_node_.kind = "absent"
  /\ models_[2].plugins_node_ = Section("seq", 2)
  /\ plugins = <<<<1, 0>>, <<1, 1>>>>

\* the positions between the return of MakeWorld and the start of teardown
Running == {"running"} \cup Updating

\* C18: no step of Update and no contact callback changes layers_, models_,
\* the objects they point to, the engine's bodies, the listener
\* registration or the engine handle: entities are created by MakeWorld and
\* destroyed by the destructor only.
C18_RunningChangesNoEntity ==
  [][(pc \in Running /\ pc' \in Running) =>
       (UNCHANGED <<layers_, models_, live, bodies, listener, engine, world,
                    cfrCount, plugins>>)]_vars

\* in the middle of an Update, after two callbacks, the World still has its
\* layers, its models and its listener registration
C18_Witness ==
  /\ pc = "Update_After"
  /\ contacts = 2
  /\ Len(layers_) >= 1
  /\ Len(models_) >= 1
  /\ Held \subseteq live
  /\ listener = "world"
  /\ engine = "alive"

\* how often the object of entry e was deleted by `op`
TimesDeleted(op, e) == Cardinality({d \in At(op) : log[d].arg = <<e>>})

\* the plugins of the model built last are being checked or loaded, or
\* their check or load has failed
AtPlugins ==
  \/ pc = "LoadModel_plugins"
  \/ exc.msg # <<>> /\ exc.msg[1] \in {"plugin ", "Invalid \"plugins\" in "}

\* C19: no object is leaked and none is freed twice, wherever loading
\* stopped: every Layer and Model on the heap is owned by the World (a model
\* is in models_ before its plugins are checked or loaded), nothing is
\* deleted that is not owned or was deleted before, and when MakeWorld has
\* failed or the World was deleted the heap is empty, every object built
\* was deleted exactly once and the engine exactly once.
C19_NoLeakNoDoubleFree ==
  /\ live \subseteq Held
  /\ pc \notin Destructing \cup {"rethrow", "failed", "destroyed"} =>
       Held \subseteq live
  /\ \A d \in At("delete Layer") :
       /\ LayerObj(log[d].arg[1]) \in Held \ live
       /\ TimesDeleted("delete Layer", log[d].arg[1]) = 1
  /\ \A d \in At("delete Model") :
       /\ ModelObj(log[d].arg[1]) \in Held \ live
       /\ TimesDeleted("delete Model", log[d].arg[1]) = 1
  /\ Cardinality(At("delete b2World")) <= 1
  /\ engine = "destroyed" <=> At("delete b2World") # {}
  /\ AtPlugins =>
       /\ models_ # <<>>
       /\ LET m == models_[Len(models_)] IN
          /\ \A c \in At("MakeModel") : log[c].arg[1] <= m.entry
          /\ pc \in {"LoadModel_plugins", "catch", "~World"} =>
               m.entry = i /\ m.obj = ModelObj(i) /\ m.obj \in live
          /\ pc = "failed" => TimesDeleted("delete Model", m.entry) = 1
  /\ pc \in {"failed", "destroyed"} =>
       IF world = "none"
       THEN engine = "none" /\ live = {} /\ Held = {} /\ log = <<>>
       ELSE /\ world = "freed"
            /\ engine = "destroyed"
            /\ live = {}
            /\ bodies = {}
            /\ Cardinality(At("delete Layer")) = cfrCount
            /\ \A n \in 1..Len(layers_) :
                 TimesDeleted("delete Layer", layers_[n].entry) = 1
            /\ \A n \in 1..Len(models_) :
                 TimesDeleted("delete Model", models_[n].entry) = 1
            /\ Cardinality(At("delete Model")) = Len(models_)
            /\ Cardinality(At("delete Model")) + Cardinality(At("delete Layer"))
                 = Cardinality(Held)

\* MakeWorld failed on the `plugins` of its second model, after layers, a
\* model and its plugins were loaded: everything was freed
C19_Witness ==
  /\ pc = "failed"
  /\ Len(layers_) >= 1
  /\ Len(models_) = 2
  /\ models_[2].plugins_node_.kind = "map"
  /\ plugins # <<>>
  /\ live = {}
  /\ TimesDeleted("delete Model", 1) = 1

\* the shape of `pose` the check of lines 216-217 asks for
PoseShaped(node) ==
  Defined(node.pose) /\ IsSequence(node.pose) /\ Len(node.pose.val) = 3

NameAndNamespaceRead(node) ==
  /\ Defined(node.name)
  /\ CanAsString(node.name)
  /\ Defined(node.ns) => CanAsString(node.ns)

\* C20: the entries of `models` are taken in order and each is checked
\* (name, namespace, pose, model) before its Model is built.  A Model is
\* built only for an entry that passed; at most one entry beyond the models
\* built has been read; and when entry i fails a check, the error is that
\* of the first field that fails, models_ holds exactly the models of
\* entries 0..i-1, each with all its plugins loaded, no Model was built for
\* entry i, and no further entry is read.
C20_FailFastInOrder ==
  /\ Len(yModels.items) <= Len(models_) + 1
  /\ Len(yModels.items) <= yModels.size
  /\ \A n \in 1..Len(models_) : models_[n].entry = n - 1
  /\ \A c \in At("MakeModel") :
       /\ log[c].arg[1] < Len(yModels.items)
       /\ yModels.items[log[c].arg[1] + 1] \notin InvalidEntries
       /\ Cardinality({d \in At("MakeModel") : log[d].arg = log[c].arg}) = 1
  /\ (yModels.items # <<>> /\ Rejected) =>
       LET node == LastEntry
           idx == LastIndex
       IN
       /\ node \in InvalidEntries
       /\ exc # NoExc
       /\ pc \in {"catch", "~World", "rethrow", "failed"} \cup Destructing
       /\ result.kind # "world"
       /\ ~Defined(node.name) =>
            exc = YAMLException(<<"Missing model name in model index=",
                                  ToString(idx)>>)
       /\ NameAndNamespaceRead(node) /\ ~PoseShaped(node) =>
            exc = YAMLException(<<"Missing/invalid \"pose\" in ">>
                                  \o node.name.val \o <<" model">>)
       /\ (/\ NameAndNamespaceRead(node)
           /\ PoseValid(node)
           /\ ~Defined(node.model)) =>
            exc = YAMLException(<<"Missing \"model\" in ">>
                                  \o node.name.val \o <<" model">>)
       /\ Len(models_) = idx
       /\ \A c \in At("MakeModel") : log[c].arg[1] < idx
       /\ \A e \in 0..(idx - 1) :
            /\ Cardinality({c \in At("MakeModel") : log[c].arg = <<e>>}) = 1
            /\ Cardinality(PluginCallsOf(e))
                 = models_[e + 1].plugins_node_.size
            /\ \A j \in 0..(models_[e + 1].plugins_node_.size - 1) :
                 \E q \in 1..Len(plugins) : plugins[q] = <<e, j>>

\* the second entry lacks name, pose and model: MakeWorld failed on its
\* name, with the first model and its plugins loaded
C20_Witness ==
  /\ pc = "failed"
  /\ Len(yModels.items) = 2
  /\ ~Defined(LastEntry.name) /\ ~Defined(LastEntry.pose)
  /\ Rejected
  /\ Len(models_) = 1
  /\ Len(plugins) = 2
  /\ result = Raised(YAMLException(<<"Missing model name in model index=",
                                     "1">>))

====
